---- MODULE Spec2Model ----
\* btrfs-sxbackup command line entry point (btrfs_sxbackup/__main__.py):
\* logging sink setup, command dispatch, failure handling, mail notification
\* and the process exit status.
EXTENDS Integers, Sequences, FiniteSets, TLC

\* ---------------------------------------------------------------- bounds
MaxHandlerLogs == 2   \* info records a command handler may log
MaxOutLen == 2        \* bytes of captured subprocess output
MaxCode == 2          \* largest SystemExit code a handler raises

\* ------------------------------------------------------------- constants
_APP_NAME == "btrfs-sxbackup"
_CMD_INIT == "init"
_CMD_UPDATE == "update"
_CMD_RUN == "run"
_CMD_INFO == "info"
_CMD_SEND == "send"
_CMD_DESTROY == "destroy"

Commands == {_CMD_INIT, _CMD_UPDATE, _CMD_RUN, _CMD_INFO, _CMD_SEND, _CMD_DESTROY}

\* Python's None for an optional string (type=str arguments, config fields)
None == "<None>"
\* truth value of an optional string: None and '' are false
Truthy(s) == s # None /\ s # ""

\* values of the optional string inputs
MailValues == {None, "", "foo@bar"}
LogIdentValues == {None, "", "job"}
ConfigMailValues == {None, "", "root@host"}
ConfigIdentValues == {None, "", "cfg"}

\* Attribute names (dest) each subparser stores in the Namespace.  An
\* optional argument's dest has '-' replaced by '_'; a positional's dest is
\* its name verbatim unless dest is given (p_init gives it, p_send does not).
GlobalDests == {"quiet", "trace", "command"}
ParserDests(cmd) ==
    GlobalDests \cup
    CASE cmd = _CMD_INIT -> {"source_subvolume", "destination_subvolume",
                             "source_retention", "destination_retention", "compress"}
      [] cmd = _CMD_DESTROY -> {"subvolume", "purge"}
      [] cmd = _CMD_UPDATE -> {"subvolume", "source_retention",
                               "destination_retention", "compress"}
      [] cmd = _CMD_RUN -> {"subvolume", "mail", "log_ident"}
      [] cmd = _CMD_INFO -> {"subvolume"}
      [] cmd = _CMD_SEND -> {"source-subvolume", "destination-subvolume", "compress"}

\* Attributes of args the dispatch branch of a command reads to build the call
DispatchReads(cmd) ==
    CASE cmd = _CMD_RUN -> {"subvolume"}
      [] cmd = _CMD_INIT -> {"source_subvolume", "source_retention",
                             "destination_subvolume", "destination_retention", "compress"}
      [] cmd = _CMD_UPDATE -> {"subvolume", "source_retention",
                               "destination_retention", "compress"}
      [] cmd = _CMD_DESTROY -> {"subvolume", "purge"}
      [] cmd = _CMD_INFO -> {"subvolume"}
      [] cmd = _CMD_SEND -> {"source_subvolume", "destination_subvolume"}

\* ------------------------------------------------------------ text values
\* Log message texts are sequences of code points.
BannerText == <<118>>          \* '%s v%s' % (_APP_NAME, __version__)
InfoText == <<105>>            \* a line logged by a command handler
TraceText == <<84>>            \* traceback.format_exc(), never empty
DiskFull == <<100, 102>>       \* a non-empty exception message
CalledProcessText == <<67>>    \* str(CalledProcessError): "Command ... returned ..."
AttributeErrorText == <<65>>   \* "'Namespace' object has no attribute ..."
CodeText(c) == <<48 + c>>      \* str(SystemExit(c))

\* bytes a subprocess may have written: space, 'a', and 0xFF (not UTF-8)
Bytes == {32, 97, 255}
RECURSIVE SeqsUpTo(_, _)
SeqsUpTo(S, n) ==
    IF n = 0 THEN {<<>>}
    ELSE LET shorter == SeqsUpTo(S, n - 1)
         IN shorter \cup {Append(s, b) : s \in {t \in shorter : Len(t) = n - 1}, b \in S}
OutputValues == SeqsUpTo(Bytes, MaxOutLen)

\* bytes.decode(): UTF-8, strict.  Over Bytes, the input is valid iff every
\* byte is ASCII; a valid input decodes to the same code points.
DecodeOk(bs) == \A i \in 1..Len(bs) : bs[i] < 128
Decode(bs) == bs
IsSpace(ch) == ch \in {9, 10, 11, 12, 13, 32}
RECURSIVE LStrip(_)
LStrip(s) == IF s # <<>> /\ IsSpace(Head(s)) THEN LStrip(Tail(s)) ELSE s
RECURSIVE RStrip(_)
RStrip(s) ==
    IF s # <<>> /\ IsSpace(s[Len(s)]) THEN RStrip(SubSeq(s, 1, Len(s) - 1)) ELSE s
\* str.strip()
Strip(s) == RStrip(LStrip(s))

\* ------------------------------------------------------------- exceptions
NoExc == [type |-> "none", msg |-> <<>>, code |-> 0, outputSet |-> FALSE, output |-> <<>>]
SystemExits ==
    {[type |-> "SystemExit", msg |-> CodeText(c), code |-> c,
      outputSet |-> FALSE, output |-> <<>>] : c \in 0..MaxCode}
GenericErrors ==
    {[type |-> "Exception", msg |-> m, code |-> 0,
      outputSet |-> FALSE, output |-> <<>>] : m \in {<<>>, DiskFull}}
CalledProcessErrors ==
    {[type |-> "CalledProcessError", msg |-> CalledProcessText, code |-> 0,
      outputSet |-> FALSE, output |-> <<>>]}
    \cup {[type |-> "CalledProcessError", msg |-> CalledProcessText, code |-> 0,
           outputSet |-> TRUE, output |-> o] : o \in OutputValues}
AttributeError ==
    [type |-> "AttributeError", msg |-> AttributeErrorText, code |-> 0,
     outputSet |-> FALSE, output |-> <<>>]
\* what a command handler may raise
HandlerExceptions == SystemExits \cup GenericErrors \cup CalledProcessErrors

VARIABLES
    args,             \* parsed Namespace: command, quiet, trace, mail, log_ident
    config,           \* Configuration.instance(): email_recipient, log_ident
    handlers,         \* handlers attached to the root logger
    syslog_ident,     \* log_syslog_handler.ident
    email_recipient,  \* module global email_recipient
    buffer,           \* log_memory_handler.buffer
    stdout,           \* lines written by log_std_handler
    syslog,           \* lines written by log_syslog_handler
    records,          \* every record the root logger has handled, in order
    calls,            \* command handlers invoked so far
    nlogs,            \* info records the running handler has logged
    handlerResult,    \* "notcalled", "running", "returned" or "raised"
    exc,              \* exception that escaped the try body, or NoExc
    mailCalls,        \* calls of mail.send: recipient, subject, body
    uncaught,         \* exception that escaped the except block, or "none"
    exitCode,         \* process exit status, -1 while running
    pc                \* position in the module-level code

vars == <<args, config, handlers, syslog_ident, email_recipient, buffer, stdout,
          syslog, records, calls, nlogs, handlerResult, exc, mailCalls, uncaught,
          exitCode, pc>>

\* ---------------------------------------------------------------- logging
INFO == "INFO"
ERROR == "ERROR"
LogRecord(level, text) == [created |-> Len(records) + 1, levelname |-> level, message |-> text]

\* MemoryHandler(capacity=-1): flushLevel ERROR, target None
MemoryCapacity == -1
MemoryTargetSet == FALSE
MemoryHandlerShouldFlush(buf, rec) ==
    Len(buf) >= MemoryCapacity \/ rec.levelname = ERROR
MemoryHandlerFlush_Clear(buf) == <<>>
MemoryHandlerFlush(buf) == IF MemoryTargetSet THEN <<>> ELSE buf
MemoryHandlerEmit(buf, rec) ==
    LET appended == Append(buf, rec)
    IN IF MemoryHandlerShouldFlush(appended, rec)
       THEN MemoryHandlerFlush(appended) ELSE appended

\* '%(levelname)s %(message)s'
StdFormat(rec) == [levelname |-> rec.levelname, message |-> rec.message]
\* ident + _APP_NAME + '[%(process)d] %(levelname)s %(message)s'
SyslogFormat(rec) ==
    [ident |-> syslog_ident, app |-> _APP_NAME,
     levelname |-> rec.levelname, message |-> rec.message]
\* '%(asctime)s %(levelname)s %(message)s'
MemoryFormat(rec) ==
    [asctime |-> rec.created, levelname |-> rec.levelname, message |-> rec.message]

\* logger.info / logger.error: the record goes to every attached handler
Emit(level, text) ==
    LET rec == LogRecord(level, text)
    IN /\ records' = Append(records, rec)
       /\ stdout' = IF "std" \in handlers THEN Append(stdout, StdFormat(rec)) ELSE stdout
       /\ syslog' = IF "syslog" \in handlers
                    THEN Append(syslog, SyslogFormat(rec)) ELSE syslog
       /\ buffer' = IF "memory" \in handlers
                    THEN MemoryHandlerEmit(buffer, rec) ELSE buffer
NoEmit == UNCHANGED <<records, stdout, syslog, buffer>>

\* ------------------------------------------------------------------- Init
\* State after parser.parse_args() and Configuration.instance().read()
ArgsValues ==
    {[command |-> c, quiet |-> q, trace |-> t, mail |-> m, log_ident |-> li] :
        c \in Commands \ {_CMD_RUN}, q \in BOOLEAN, t \in BOOLEAN,
        m \in {None}, li \in {None}}
    \cup
    {[command |-> c, quiet |-> q, trace |-> t, mail |-> m, log_ident |-> li] :
        c \in {_CMD_RUN}, q \in BOOLEAN, t \in BOOLEAN,
        m \in MailValues, li \in LogIdentValues}
ConfigValues ==
    {[email_recipient |-> e, log_ident |-> li] :
        e \in ConfigMailValues, li \in ConfigIdentValues}

Init ==
    /\ args \in ArgsValues
    /\ config \in ConfigValues
    /\ handlers = {}
    /\ syslog_ident = ""
    /\ email_recipient = None
    /\ buffer = <<>>
    /\ stdout = <<>>
    /\ syslog = <<>>
    /\ records = <<>>
    /\ calls = <<>>
    /\ nlogs = 0
    /\ handlerResult = "notcalled"
    /\ exc = NoExc
    /\ mailCalls = <<>>
    /\ uncaught = "none"
    /\ exitCode = -1
    /\ pc = "setup"

\* ---------------------------------------------------------- logging setup
AttachStd(a) == ~a.quiet
AttachSyslog(a) == a.command = _CMD_RUN
AttachMemory_IfRecipient(a) == a.command = _CMD_RUN /\ Truthy(a.mail)
AttachMemory(a) == a.command = _CMD_RUN /\ a.mail # None

\* lines 125-128: the ident the syslog handler ends up with
ResolveIdent(a, cfg) ==
    IF Truthy(a.log_ident)
    THEN LET log_ident == IF Truthy(a.log_ident) THEN a.log_ident ELSE cfg.log_ident
         IN IF Truthy(log_ident) THEN log_ident \o " " ELSE ""
    ELSE ""

\* lines 116, 131-132
ResolveRecipient_NoFallback(a, cfg) ==
    IF a.command = _CMD_RUN /\ a.mail # None THEN a.mail ELSE None
ResolveRecipient(a, cfg) ==
    IF a.command = _CMD_RUN /\ a.mail # None
    THEN IF Len(a.mail) > 0 THEN a.mail ELSE cfg.email_recipient
    ELSE None

SetupLogging ==
    /\ pc = "setup"
    /\ handlers' = (IF AttachStd(args) THEN {"std"} ELSE {})
                   \cup (IF AttachSyslog(args) THEN {"syslog"} ELSE {})
                   \cup (IF AttachMemory(args) THEN {"memory"} ELSE {})
    /\ syslog_ident' = IF args.command = _CMD_RUN THEN ResolveIdent(args, config) ELSE ""
    /\ email_recipient' = ResolveRecipient(args, config)
    /\ pc' = "banner"
    /\ NoEmit
    /\ UNCHANGED <<args, config, calls, nlogs, handlerResult, exc, mailCalls,
                   uncaught, exitCode>>

\* lines 139-140
LogBanner ==
    /\ pc = "banner"
    /\ Emit(INFO, BannerText)
    /\ pc' = "dispatch"
    /\ UNCHANGED <<args, config, handlers, syslog_ident, email_recipient, calls,
                   nlogs, handlerResult, exc, mailCalls, uncaught, exitCode>>

\* ---------------------------------------------------------------- dispatch
\* lines 142-167: the branch of the if/elif chain selected by args.command
\* evaluates the call's arguments (attribute reads on args) and then calls
\* the handler; a missing attribute raises AttributeError inside the try.
Dispatch ==
    /\ pc = "dispatch"
    /\ IF DispatchReads(args.command) \subseteq ParserDests(args.command)
       THEN /\ calls' = Append(calls, args.command)
            /\ handlerResult' = "running"
            /\ pc' = "handler"
            /\ exc' = exc
       ELSE /\ exc' = AttributeError
            /\ pc' = "except"
            /\ UNCHANGED <<calls, handlerResult>>
    /\ NoEmit
    /\ UNCHANGED <<args, config, handlers, syslog_ident, email_recipient, nlogs,
                   mailCalls, uncaught, exitCode>>

\* btrfs_sxbackup.commands.<command>: logs through the root logger ...
HandlerLog ==
    /\ pc = "handler"
    /\ nlogs < MaxHandlerLogs
    /\ nlogs' = nlogs + 1
    /\ Emit(INFO, InfoText)
    /\ UNCHANGED <<args, config, handlers, syslog_ident, email_recipient, calls,
                   handlerResult, exc, mailCalls, uncaught, exitCode, pc>>

\* ... and returns (control reaches exit(0) at line 197) ...
HandlerReturn ==
    /\ pc = "handler"
    /\ handlerResult' = "returned"
    /\ pc' = "exit0"
    /\ NoEmit
    /\ UNCHANGED <<args, config, handlers, syslog_ident, email_recipient, calls,
                   nlogs, exc, mailCalls, uncaught, exitCode>>

\* ... or raises
HandlerRaise ==
    /\ pc = "handler"
    /\ \E e \in HandlerExceptions : exc' = e
    /\ handlerResult' = "raised"
    /\ pc' = "except"
    /\ NoEmit
    /\ UNCHANGED <<args, config, handlers, syslog_ident, email_recipient, calls,
                   nlogs, mailCalls, uncaught, exitCode>>

\* ------------------------------------------------------- failure handling
\* which except clause (line 169 or line 173) catches e
ExceptClause_CodeZeroOnly(e) ==
    IF e.type = "SystemExit" /\ e.code = 0 THEN "SystemExit" ELSE "BaseException"
ExceptClause(e) == IF e.type = "SystemExit" THEN "SystemExit" ELSE "BaseException"

\* exit status the interpreter ends with when e propagates out of the module
InterpreterExit_Zero(e) == IF e.type = "SystemExit" THEN e.code ELSE 0
InterpreterExit(e) == IF e.type = "SystemExit" THEN e.code ELSE 1

\* lines 169-171
ExceptSystemExit ==
    /\ pc = "except"
    /\ ExceptClause(exc) = "SystemExit"
    /\ IF exc.code # 0
       THEN /\ exitCode' = InterpreterExit(exc)
            /\ pc' = "done"
       ELSE /\ pc' = "exit0"
            /\ exitCode' = exitCode
    /\ NoEmit
    /\ UNCHANGED <<args, config, handlers, syslog_ident, email_recipient, calls,
                   nlogs, handlerResult, exc, mailCalls, uncaught>>

\* lines 175-177
ShouldLogMessage_Always(e_msg) == TRUE
ShouldLogMessage(e_msg) == Len(e_msg) > 0
LogMessage ==
    /\ pc = "except"
    /\ ExceptClause(exc) = "BaseException"
    /\ IF ShouldLogMessage(exc.msg) THEN Emit(ERROR, exc.msg) ELSE NoEmit
    /\ pc' = "output"
    /\ UNCHANGED <<args, config, handlers, syslog_ident, email_recipient, calls,
                   nlogs, handlerResult, exc, mailCalls, uncaught, exitCode>>

\* lines 179-183; e.output.decode() raises UnicodeDecodeError on bytes that
\* are not UTF-8, which leaves the except block and ends the process
HasOutput(e) == e.type = "CalledProcessError" /\ e.outputSet /\ e.output # <<>>
LogOutput ==
    /\ pc = "output"
    /\ IF HasOutput(exc)
       THEN IF DecodeOk(exc.output)
            THEN LET output == Strip(Decode(exc.output))
                 IN /\ IF Len(output) > 0 THEN Emit(ERROR, output) ELSE NoEmit
                    /\ pc' = "trace"
                    /\ UNCHANGED <<uncaught, exitCode>>
            ELSE /\ uncaught' = "UnicodeDecodeError"
                 /\ exitCode' = InterpreterExit([exc EXCEPT !.type = "UnicodeDecodeError"])
                 /\ pc' = "done"
                 /\ NoEmit
       ELSE /\ pc' = "trace"
            /\ NoEmit
            /\ UNCHANGED <<uncaught, exitCode>>
    /\ UNCHANGED <<args, config, handlers, syslog_ident, email_recipient, calls,
                   nlogs, handlerResult, exc, mailCalls>>

\* lines 185-187
LogTrace ==
    /\ pc = "trace"
    /\ IF args.trace THEN Emit(ERROR, TraceText) ELSE NoEmit
    /\ pc' = "mail"
    /\ UNCHANGED <<args, config, handlers, syslog_ident, email_recipient, calls,
                   nlogs, handlerResult, exc, mailCalls, uncaught, exitCode>>

\* lines 189-194; mail.send either returns or raises, and what it raises
\* leaves the except block
MailSubject == _APP_NAME \o " FAILED"
MailBody(buf) == [i \in 1..Len(buf) |-> MemoryFormat(buf[i])]
Escalate ==
    /\ pc = "mail"
    /\ IF Truthy(email_recipient)
       THEN /\ mailCalls' = Append(mailCalls,
                               [recipient |-> email_recipient, subject |-> MailSubject,
                                body |-> MailBody(buffer)])
            /\ \E sent \in BOOLEAN :
                 IF sent
                 THEN /\ pc' = "exit1"
                      /\ UNCHANGED <<uncaught, exitCode>>
                 ELSE /\ uncaught' = "MailError"
                      /\ exitCode' = InterpreterExit([exc EXCEPT !.type = "MailError"])
                      /\ pc' = "done"
       ELSE /\ pc' = "exit1"
            /\ UNCHANGED <<mailCalls, uncaught, exitCode>>
    /\ NoEmit
    /\ UNCHANGED <<args, config, handlers, syslog_ident, email_recipient, calls,
                   nlogs, handlerResult, exc>>

\* line 195
Exit1 ==
    /\ pc = "exit1"
    /\ exitCode' = 1
    /\ pc' = "done"
    /\ NoEmit
    /\ UNCHANGED <<args, config, handlers, syslog_ident, email_recipient, calls,
                   nlogs, handlerResult, exc, mailCalls, uncaught>>

\* line 197
Exit0 ==
    /\ pc = "exit0"
    /\ exitCode' = 0
    /\ pc' = "done"
    /\ NoEmit
    /\ UNCHANGED <<args, config, handlers, syslog_ident, email_recipient, calls,
                   nlogs, handlerResult, exc, mailCalls, uncaught>>

Next ==
    \/ SetupLogging
    \/ LogBanner
    \/ Dispatch
    \/ HandlerLog
    \/ HandlerReturn
    \/ HandlerRaise
    \/ ExceptSystemExit
    \/ LogMessage
    \/ LogOutput
    \/ LogTrace
    \/ Escalate
    \/ Exit1
    \/ Exit0

Spec == Init /\ [][Next]_vars

TypeOK ==
    /\ args \in ArgsValues
    /\ config \in ConfigValues
    /\ handlers \subseteq {"std", "syslog", "memory"}
    /\ exitCode \in -1..255
    /\ pc \in {"setup", "banner", "dispatch", "handler", "except", "output",
               "trace", "mail", "exit1", "exit0", "done"}

\* ================================================================ claims
HasErrorRecord == \E i \in 1..Len(records) : records[i].levelname = ERROR
ErrorTexts ==
    LET errs == SelectSeq(records, LAMBDA r : r.levelname = ERROR)
    IN [i \in 1..Len(errs) |-> errs[i].message]
AllTexts == [i \in 1..Len(records) |-> records[i].message]
\* a failure other than SystemExit left the try body
ClassifiedFailure == exc.type \notin {"none", "SystemExit"}
\* the error texts the three reporting rules call for, in their fixed order
ExpectedErrorTexts ==
    (IF exc.msg # <<>> THEN <<exc.msg>> ELSE <<>>)
    \o (IF /\ exc.type = "CalledProcessError" /\ exc.outputSet
           /\ DecodeOk(exc.output) /\ Strip(Decode(exc.output)) # <<>>
        THEN <<Strip(Decode(exc.output))>> ELSE <<>>)
    \o (IF args.trace THEN <<TraceText>> ELSE <<>>)
ExpectedArmed ==
    /\ args.command = "run"
    /\ \/ args.mail \notin {None, ""}
       \/ args.mail = "" /\ config.email_recipient \notin {None, ""}
ExpectedRecipient ==
    IF args.mail \notin {None, ""} THEN args.mail ELSE config.email_recipient

\* C1: every finished invocation has the exit status fixed by what escaped
\* the handler: 0 if nothing or SystemExit(0) escaped, c for SystemExit(c)
\* with c # 0, and 1 for any other exception, reached only after the
\* failure's error records and, when armed, the notifier call.
C1_ExitOutcome ==
    pc = "done" =>
        /\ (handlerResult # "raised" \/ (exc.type = "SystemExit" /\ exc.code = 0))
              => exitCode = 0
        /\ (handlerResult = "raised" /\ exc.type = "SystemExit" /\ exc.code # 0)
              => exitCode = exc.code
        /\ (handlerResult = "raised" /\ exc.type # "SystemExit")
              => /\ exitCode = 1
                 /\ ErrorTexts = ExpectedErrorTexts
                 /\ ExpectedArmed => Len(mailCalls) = 1

\* C2 (as stated): every failure other than SystemExit that escapes the
\* handler has produced at least one error record when the process exits.
C2_AlwaysErrorRecord ==
    (pc = "done" /\ handlerResult = "raised" /\ ClassifiedFailure) => HasErrorRecord

\* C2 (amended): such a failure has produced an error record at exit exactly
\* when its message text is non-empty or trace mode is enabled.
C2_ErrorRecordIffMessageOrTrace ==
    (pc = "done" /\ handlerResult = "raised" /\ ClassifiedFailure)
        => (HasErrorRecord <=> (exc.msg # <<>> \/ args.trace))
C2_Witness ==
    /\ pc = "done" /\ handlerResult = "raised" /\ exc.type = "Exception"
    /\ exc.msg = <<>> /\ ~args.trace /\ exitCode = 1 /\ ~HasErrorRecord

\* C3: once dispatch is over, the handler named by the command has been
\* invoked exactly once and no other handler has, for each of the six commands.
C3_DispatchInvokesHandler ==
    pc \notin {"setup", "banner", "dispatch"} => calls = <<args.command>>

\* C4: when a SystemExit (zero or non-zero code) left the handler, no error
\* record is ever emitted and the notifier is never invoked.
C4_NoReportOnSystemExit ==
    exc.type = "SystemExit" => (~HasErrorRecord /\ mailCalls = <<>>)
C4_Witness ==
    /\ pc = "done" /\ exc.type = "SystemExit" /\ exc.code = 2 /\ exitCode = 2
    /\ args.command = "run" /\ email_recipient = "foo@bar"

\* C5: after setup, escalation is armed exactly for run with a non-empty
\* mail address or with a bare mail flag and a non-empty configured default;
\* the recipient is the address resp. the default; the notifier is called at
\* the escalation step iff armed, with that recipient; and the recipient is
\* never changed after setup.
C5_ArmedState ==
    pc # "setup" =>
        /\ (email_recipient \notin {None, ""}) <=> ExpectedArmed
        /\ ExpectedArmed => email_recipient = ExpectedRecipient
        /\ (pc = "exit1" \/ uncaught = "MailError") => (mailCalls # <<>> <=> ExpectedArmed)
        /\ \A i \in 1..Len(mailCalls) : mailCalls[i].recipient = ExpectedRecipient
C5_EscalationArmed ==
    /\ []C5_ArmedState
    /\ [][pc # "setup" => email_recipient' = email_recipient]_vars
C5_Witness ==
    /\ pc = "done" /\ args.command = "run" /\ args.mail = ""
    /\ config.email_recipient = "root@host"
    /\ Len(mailCalls) = 1 /\ mailCalls[1].recipient = "root@host"

\* C6: the notifier is invoked at most once, after which nothing more is
\* logged; its subject is "btrfs-sxbackup FAILED" and its body is every
\* record emitted since startup, in order: the banner, the handler's
\* records, then the failure's error records.
C6_NotifierOnceWithFullHistory ==
    /\ Len(mailCalls) <= 1
    /\ mailCalls # <<>> =>
          LET m == mailCalls[1]
          IN /\ m.subject = "btrfs-sxbackup FAILED"
             /\ m.body = [i \in 1..Len(records) |->
                            [asctime |-> i, levelname |-> records[i].levelname,
                             message |-> records[i].message]]
             /\ AllTexts = <<BannerText>> \o [i \in 1..nlogs |-> InfoText]
                             \o ExpectedErrorTexts
             /\ \A i \in 1..Len(records) :
                   records[i].levelname = (IF i <= 1 + nlogs THEN INFO ELSE ERROR)
C6_Witness ==
    /\ pc = "done" /\ Len(mailCalls) = 1 /\ args.trace /\ nlogs >= 1
    /\ exc.msg = DiskFull /\ Len(mailCalls[1].body) = nlogs + 3

\* C7: at exit after a classified failure the error records are exactly:
\* the message iff non-empty, then the decoded and trimmed captured output
\* iff the failure is a CalledProcessError and that text is non-empty, then
\* the stack trace iff trace mode is enabled.
C7_ErrorRecordOrder ==
    (pc = "done" /\ ClassifiedFailure) => ErrorTexts = ExpectedErrorTexts

\* C8: when mail.send raised during escalation, the process ends with exit
\* status 1.
C8_SendFailureKeepsExitCode ==
    uncaught = "MailError" => (pc = "done" /\ exitCode = 1)
C8_Witness ==
    /\ pc = "done" /\ uncaught = "MailError" /\ Len(mailCalls) = 1
    /\ ClassifiedFailure /\ args.command = "run"

\* C9: after setup the attached sinks are: console iff not quiet, system log
\* iff the command is run, memory buffer iff the command is run and the mail
\* flag is present; and the set never changes after setup.
C9_SinkRules ==
    pc # "setup" =>
        /\ "std" \in handlers <=> ~args.quiet
        /\ "syslog" \in handlers <=> args.command = "run"
        /\ "memory" \in handlers <=> (args.command = "run" /\ args.mail # None)
C9_SinkTopology ==
    /\ []C9_SinkRules
    /\ [][pc # "setup" => handlers' = handlers]_vars
C9_Witness ==
    /\ pc = "done" /\ args.command = "run" /\ args.mail = ""
    /\ config.email_recipient = None /\ args.quiet
    /\ handlers = {"syslog", "memory"} /\ Len(buffer) = Len(records)

\* C10: for run with a log identity supplied, the syslog ident is the
\* supplied value if non-empty, else the configured log_ident, followed by
\* one space when the resolved identity is non-empty; otherwise it is unset.
C10_LogIdent ==
    (pc # "setup" /\ args.command = "run") =>
        syslog_ident =
            IF args.log_ident # None
            THEN LET resolved == IF args.log_ident # "" THEN args.log_ident
                                 ELSE config.log_ident
                 IN IF resolved \notin {None, ""} THEN resolved \o " " ELSE ""
            ELSE ""

====
